---- MODULE Spec2Model ----
(***************************************************************************)
(* Model of journalcloud (src/src/main.rs): a single-threaded agent that   *)
(* drains the systemd journal in batches, uploads every batch to one       *)
(* CloudWatch log stream and then writes the journal cursor of the batch   *)
(* to a cursor file.                                                       *)
(*                                                                         *)
(* Journal records are identified by their index 1..jlen in the journal.   *)
(* The journal, the cursor file and the log group outlive the process; the *)
(* Runtime struct does not.  The process can be killed or can panic (every *)
(* fallible call is unwrap()ed) at any step and is restarted by a          *)
(* supervisor.                                                             *)
(*                                                                         *)
(* External collaborators are modelled by their documented contract:       *)
(*  - systemd journal: seek(Head) positions before the first entry,        *)
(*    seek(Cursor c) positions on the entry c names so that the next       *)
(*    next_record() returns the entry after it, cursor() names the entry   *)
(*    read last, a malformed cursor string makes seek fail;                *)
(*  - CloudWatch Logs: DescribeLogStreams returns the streams whose name   *)
(*    starts with the prefix, ordered by name; PutLogEvents is accepted    *)
(*    only for an existing stream and with the stream's current upload     *)
(*    sequence token, and returns the next one;                            *)
(*  - file system: File::create truncates, write_all then writes.          *)
(***************************************************************************)
EXTENDS Integers, Sequences, FiniteSets, TLC

\* ------------------------------------------------------------------ bounds
MaxJournal == 3
MaxBatch == 2
MaxCrashes == 2
ScenarioJournal == 5

VARIABLES
    batch_size,     \* Config.batch_size
    jlen,           \* number of records in the journal (records are 1..jlen)
    cursor_file,    \* the file at Config.cursor_file: [exists, bytes]
    streams,        \* the log group: stream name -> [exists, token]
    pc,             \* position of the process in main / init_runtime
    jpos,           \* Runtime.journal: index of the entry read last (0: none)
    aws_cursor,     \* Runtime.aws_cursor: Option<String>, <<>> is None
    batch,          \* the Option<LogBatch> bound in main's match
    seek,           \* the JournalSeek init_journal passed to Journal::seek
    \* ---- history (never read by an action's guard or effect on the above)
    delivered,      \* records the service accepted into the configured stream
    acked,          \* cursors of batches whose upload_logs returned
    ackedRecords,   \* records of batches whose upload_logs returned
    batchAcked,     \* upload_logs returned for the current batch in this run
    lastReturned,   \* next_sequence_token of the last accepted upload
    readsRun,       \* records returned by read_batch in this run, in order
    uploadsRun,     \* records carried by the requests of this run, in order
    lastRead,       \* [backlog, consumed, some, len] of the last read_batch
    prevBytes,      \* cursor file contents when the last persist_cursor began
    newBytes,       \* the token the last persist_cursor was given
    lastPersisted,  \* position of the last cursor write_all completed (0: none)
    resumeFloor,    \* lastPersisted when the current run started
    gapOnly,        \* every kill so far hit between upload_logs and persist_cursor
    freshStart,     \* the run found the cursor file absent or empty
    crashes,        \* kills and injected failures so far
    exit,           \* [cause, token]: why this run's process ended ("none":
                    \* it has not) and Runtime.aws_cursor when it did
    inflight,       \* records of the batch that was in hand when a process
                    \* ended and whose cursor no write_all has stored since
    deliveredAtStart, \* delivered when the current run started
    seekTarget,     \* what journal_seek_target returned at the last startup
    resolution,     \* [done, token]: create_or_find_log_stream's return, this run
    trace           \* calls of this run: read_batch, upload_logs,
                    \* persist_cursor, sleep (an idle read/sleep pair once)

vars == <<batch_size, jlen, cursor_file, streams, pc, jpos, aws_cursor, batch,
          seek, delivered, acked, ackedRecords, batchAcked, lastReturned, readsRun,
          uploadsRun, lastRead, prevBytes, newBytes, lastPersisted,
          resumeFloor, gapOnly, freshStart, crashes, exit, inflight,
          deliveredAtStart, seekTarget, resolution, trace>>

\* ------------------------------------------------------------------ values
\* Option<String>::None
NoToken == <<>>

\* Option<LogBatch>::None
NoBatch == [some |-> FALSE, logs |-> <<>>, cursor |-> <<>>]

\* JournalSeek
SeekHead == [kind |-> "Head", cursor |-> <<>>]
SeekTail == [kind |-> "Tail", cursor |-> <<>>]
SeekCursor(c) == [kind |-> "Cursor", cursor |-> c]

\* Config.log_stream_name, and the names a log group may hold: a name that
\* does not start with the configured one, the configured one, and one that
\* has it as a proper prefix.
log_stream_name == <<1>>
StreamNames == {<<0>>, <<1>>, <<1, 1>>}

Min(a, b) == IF a <= b THEN a ELSE b

IsPrefix(p, s) == Len(p) <= Len(s) /\ SubSeq(s, 1, Len(p)) = p

\* strict lexicographic order on names
RECURSIVE LexLess(_, _)
LexLess(a, b) ==
    IF a = <<>> THEN b # <<>>
    ELSE IF b = <<>> THEN FALSE
    ELSE IF Head(a) # Head(b) THEN Head(a) < Head(b)
    ELSE LexLess(Tail(a), Tail(b))

\* ----------------------------------------------------------------- journal
\* Journal::cursor(): the serialised position of the entry read last.  The
\* string is modelled as two bytes, a header and the entry's identity, so a
\* truncated write leaves a string that is no cursor.
JournalCursor(p) == <<0, p>>

WellFormedCursor(c) == Len(c) = 2 /\ c[1] = 0 /\ c[2] >= 0

\* Journal::seek: [ok, pos]
JournalSeekTo(target) ==
    IF target.kind = "Head" THEN [ok |-> TRUE, pos |-> 0]
    ELSE IF target.kind = "Tail" THEN [ok |-> TRUE, pos |-> jlen]
    ELSE IF WellFormedCursor(target.cursor)
         THEN [ok |-> TRUE, pos |-> target.cursor[2]]
         ELSE [ok |-> FALSE, pos |-> 0]


\* Runtime::read_batch, the for loop (lines 78-83): i counts the iterations
\* done, p is the journal position, logs the records pushed so far.
RECURSIVE read_loop(_, _, _, _)
read_loop(i, n, p, logs) ==
    IF i >= n THEN [pos |-> p, logs |-> logs]
    ELSE IF p >= jlen THEN [pos |-> p, logs |-> logs]
    ELSE read_loop(i + 1, n, p + 1, Append(logs, p + 1))

\* a loop that runs once more than batch_size
read_batch_one_more(n, p) ==
    LET r == read_loop(0, n + 1, p, <<>>)
    IN  [pos |-> r.pos,
         result |-> IF Len(r.logs) = 0 THEN NoBatch
                    ELSE [some |-> TRUE, logs |-> r.logs,
                          cursor |-> JournalCursor(r.pos)]]

\* a read_batch that takes the cursor before it reads
read_batch_stale_cursor(n, p) ==
    LET r == read_loop(0, n, p, <<>>)
    IN  [pos |-> r.pos,
         result |-> IF Len(r.logs) = 0 THEN NoBatch
                    ELSE [some |-> TRUE, logs |-> r.logs,
                          cursor |-> JournalCursor(p)]]

\* Runtime::read_batch: the position it leaves the journal at, and its result
read_batch(n, p) ==
    LET r == read_loop(0, n, p, <<>>)
    IN  [pos |-> r.pos,
         result |-> IF Len(r.logs) = 0 THEN NoBatch
                    ELSE [some |-> TRUE, logs |-> r.logs,
                          cursor |-> JournalCursor(r.pos)]]

\* -------------------------------------------------------------- cursor file
\* a reader that always starts from the head of the journal
journal_seek_target_always_head(file) == SeekHead

\* a reader that starts from "now" when there is no cursor
journal_seek_target_tail(file) ==
    IF ~file.exists THEN SeekTail
    ELSE IF Len(file.bytes) = 0 THEN SeekTail
    ELSE SeekCursor(file.bytes)

\* a start that takes the file's content as a cursor only when it is one
journal_seek_target_validating(file) ==
    IF ~file.exists THEN SeekHead
    ELSE IF ~WellFormedCursor(file.bytes) THEN SeekHead
    ELSE SeekCursor(file.bytes)

\* journal_seek_target
journal_seek_target(file) ==
    IF ~file.exists THEN SeekHead
    ELSE IF Len(file.bytes) = 0 THEN SeekHead
    ELSE SeekCursor(file.bytes)

\* the strict prefixes of a token: what a write_all that fails can leave
StrictPrefixes(c) == {SubSeq(c, 1, k) : k \in 0..(Len(c) - 1)}

\* ------------------------------------------------------------ log service
\* the token a stream hands out after one more accepted upload
NextSequenceToken(name, tok) ==
    IF tok = NoToken THEN Append(name, 1)
    ELSE Append(name, tok[Len(tok)] + 1)

RECURSIVE SortByName(_)
SortByName(S) ==
    IF S = {} THEN <<>>
    ELSE LET m == CHOOSE x \in S : \A y \in S \ {x} : LexLess(x, y)
         IN  <<m>> \o SortByName(S \ {m})

\* DescribeLogStreams with log_stream_name_prefix, default order: the
\* streams whose name starts with the prefix, by name
describe_log_streams(prefix) ==
    LET names == SortByName({n \in StreamNames :
                               streams[n].exists /\ IsPrefix(prefix, n)})
    IN  [i \in 1..Len(names) |->
            [log_stream_name |-> names[i],
             upload_sequence_token |-> streams[names[i]].token]]

\* create_or_find_log_stream: the token it returns and whether it calls
\* create_log_stream
create_or_find_log_stream ==
    LET found == describe_log_streams(log_stream_name)
    IN  IF Len(found) > 0
        THEN [token |-> found[1].upload_sequence_token, create |-> FALSE]
        ELSE [token |-> NoToken, create |-> TRUE]

\* PutLogEvents: the service takes the request
Accepts(token) ==
    /\ streams[log_stream_name].exists
    /\ token = streams[log_stream_name].token

\* ------------------------------------------------------------------- main
\* a loop that writes the cursor before it uploads
main_match_persist_first(b) == IF b.some THEN "persist" ELSE "sleep"

\* a loop that does not sleep on an empty read
main_match_no_sleep(b) == IF b.some THEN "upload" ELSE "read"

\* a loop that ends when the journal has nothing new
main_match_exit_when_idle(b) == IF b.some THEN "upload" ELSE "done"

\* main, the match on read_batch's result (lines 189-195)
main_match(b) == IF b.some THEN "upload" ELSE "sleep"

\* a start that goes to the loop without resolving the stream
init_runtime_unresolved(after) == "read"

\* init_runtime (lines 143-153): init_journal, then
\* create_or_find_log_stream, then main's loop
init_runtime(after) ==
    IF after = "init_journal" THEN "find_stream" ELSE "read"

\* a request whose events are in reverse order
log_events_reversed(logs) ==
    [i \in 1..Len(logs) |-> logs[Len(logs) + 1 - i]]

\* upload_logs, lines 100-105: one event per record of the batch, in the
\* batch's order (an event is identified by the record it serialises)
log_events(logs) == [i \in 1..Len(logs) |-> logs[i]]

\* an upload whose result is not checked
upload_unchecked(ok) == "persist"

\* upload_logs, the unwrap of put_log_events' result (line 107)
upload_unwrap(ok) == IF ok THEN "persist" ELSE "down"


\* ---------------------------------------------------------------- history
\* the process of this run has not ended
NoExit == [cause |-> "none", token |-> NoToken]

\* create_or_find_log_stream has not returned in this run
NoResolution == [done |-> FALSE, token |-> NoToken]

\* the calls main makes, as the trace records them
ReadEvent(b) == [op |-> "read", logs |-> b.logs, cursor |-> b.cursor]
UploadEvent(b) == [op |-> "upload", logs |-> b.logs, cursor |-> <<>>]
PersistEvent(b) == [op |-> "persist", logs |-> <<>>, cursor |-> b.cursor]
SleepEvent == [op |-> "sleep", logs |-> <<>>, cursor |-> <<>>]

\* the trace with one more call; the idle pair read_batch -> None, sleep is
\* recorded once however often the loop repeats it
Traced(t, e) ==
    LET n == Len(t)
    IN  IF e = SleepEvent /\ n >= 1 /\ t[n] = SleepEvent THEN t
        ELSE IF /\ e = ReadEvent(NoBatch)
                /\ n >= 2
                /\ t[n] = SleepEvent
                /\ t[n - 1] = ReadEvent(NoBatch) THEN t
        ELSE Append(t, e)

\* the records of a batch
Records(b) == {b.logs[i] : i \in 1..Len(b.logs)}

\* ------------------------------------------------------------------- state
\* The process is about to run init_runtime.  The journal holds one of the
\* given numbers of records; the cursor file is absent or empty; the log
\* group holds any of the three names, the configured stream with or without
\* earlier uploads.
Start(journals) ==
    /\ batch_size \in 0..MaxBatch
    /\ jlen \in journals
    /\ cursor_file \in {[exists |-> FALSE, bytes |-> <<>>],
                        [exists |-> TRUE, bytes |-> <<>>]}
    /\ streams \in {f \in [StreamNames ->
                            [exists : BOOLEAN, token : {NoToken, <<0, 1>>, <<1, 1>>, <<1, 1, 1>>}]] :
                      \A n \in StreamNames :
                         /\ ~f[n].exists => f[n].token = NoToken
                         /\ f[n].token \in {NoToken, Append(n, 1)}
                         /\ (f[n].exists /\ n # log_stream_name) => f[n].token # NoToken}
    /\ pc = "init_journal"
    /\ jpos = 0
    /\ aws_cursor = NoToken
    /\ batch = NoBatch
    /\ seek = SeekHead
    /\ delivered = {}
    /\ acked = {}
    /\ ackedRecords = {}
    /\ batchAcked = FALSE
    /\ lastReturned = streams[log_stream_name].token
    /\ readsRun = <<>>
    /\ uploadsRun = <<>>
    /\ lastRead = [backlog |-> 0, consumed |-> 0, some |-> FALSE, len |-> 0]
    /\ prevBytes = <<>>
    /\ newBytes = <<>>
    /\ lastPersisted = 0
    /\ resumeFloor = 0
    /\ gapOnly = TRUE
    /\ freshStart = TRUE
    /\ crashes = 0
    /\ exit = NoExit
    /\ inflight = {}
    /\ deliveredAtStart = {}
    /\ seekTarget = SeekHead
    /\ resolution = NoResolution
    /\ trace = <<>>

\* the journal is empty and grows
Init == Start({0})

\* the journal holds its records from the start
ScenarioInit == Start(0..ScenarioJournal)

\* the groups of history variables
FileHistory == <<prevBytes, newBytes, lastPersisted>>
RunHistory == <<readsRun, uploadsRun, lastRead, resumeFloor, freshStart>>
SinkHistory == <<delivered, acked, ackedRecords, lastReturned>>
ExitHistory == <<exit, inflight>>
StartHistory == <<deliveredAtStart, seekTarget, resolution>>

\* The Runtime is dropped: the process is gone (killed, or a panic of
\* unwrap/expect unwound main).
Dropped ==
    /\ pc' = "down"
    /\ jpos' = 0
    /\ aws_cursor' = NoToken
    /\ batch' = NoBatch
    /\ seek' = SeekHead
    /\ batchAcked' = FALSE

\* The batch in flight when the process ends now: the batch in hand while it
\* is uploaded or its cursor written; with no batch in hand, none if this
\* run stored a cursor, and else the one the run started with.
InFlight ==
    IF pc \in {"upload", "persist", "write"} THEN Records(batch)
    ELSE IF \E i \in 1..Len(trace) : trace[i].op = "persist" THEN {}
    ELSE inflight

\* journald appends a record to the journal
AppendRecord ==
    /\ jlen < MaxJournal
    /\ jlen' = jlen + 1
    /\ UNCHANGED <<batch_size, cursor_file, streams, pc, jpos, aws_cursor,
                   batch, seek, batchAcked, crashes, gapOnly>>
    /\ UNCHANGED <<FileHistory, RunHistory, SinkHistory>>
    /\ UNCHANGED <<ExitHistory, StartHistory, trace>>

\* init_journal: Journal::open, journal_seek_target, Journal::seek
InitJournal ==
    /\ pc = "init_journal"
    /\ LET target == journal_seek_target(cursor_file)
           r == JournalSeekTo(target)
       IN  /\ freshStart' = (~cursor_file.exists \/ cursor_file.bytes = <<>>)
           /\ seekTarget' = target
           /\ IF r.ok
              THEN /\ seek' = target
                   /\ jpos' = r.pos
                   /\ pc' = init_runtime("init_journal")
                   /\ UNCHANGED <<aws_cursor, batch, batchAcked, gapOnly>>
                   /\ UNCHANGED ExitHistory
              ELSE /\ Dropped
                   /\ gapOnly' = FALSE
                   /\ exit' = [cause |-> "seek", token |-> aws_cursor]
                   /\ UNCHANGED inflight
    /\ UNCHANGED <<batch_size, jlen, cursor_file, streams, crashes,
                   readsRun, uploadsRun, lastRead, resumeFloor>>
    /\ UNCHANGED <<FileHistory, SinkHistory>>
    /\ UNCHANGED <<deliveredAtStart, resolution, trace>>

\* init_runtime, line 150: create_or_find_log_stream
CreateOrFindLogStream ==
    /\ pc = "find_stream"
    /\ LET r == create_or_find_log_stream
       IN  /\ aws_cursor' = r.token
           /\ streams' = IF r.create
                         THEN [streams EXCEPT ![log_stream_name] =
                                  [exists |-> TRUE, token |-> NoToken]]
                         ELSE streams
           /\ resolution' = [done |-> TRUE, token |-> r.token]
    /\ pc' = init_runtime("find_stream")
    /\ UNCHANGED <<batch_size, jlen, cursor_file, jpos, batch, seek,
                   batchAcked, crashes, gapOnly>>
    /\ UNCHANGED <<FileHistory, RunHistory, SinkHistory>>
    /\ UNCHANGED <<ExitHistory, deliveredAtStart, seekTarget, trace>>

\* main, line 189: runtime.read_batch() and the match on its result
ReadBatch ==
    /\ pc = "read"
    /\ LET r == read_batch(batch_size, jpos)
       IN  /\ jpos' = r.pos
           /\ batch' = r.result
           /\ pc' = main_match(r.result)
           /\ readsRun' = readsRun \o r.result.logs
           /\ lastRead' = [backlog |-> jlen - jpos, consumed |-> r.pos - jpos,
                           some |-> r.result.some, len |-> Len(r.result.logs)]
           /\ trace' = Traced(trace, ReadEvent(r.result))
    /\ batchAcked' = FALSE
    /\ UNCHANGED <<batch_size, jlen, cursor_file, streams, aws_cursor, seek,
                   crashes, gapOnly, uploadsRun, resumeFloor, freshStart>>
    /\ UNCHANGED <<FileHistory, SinkHistory>>
    /\ UNCHANGED <<ExitHistory, StartHistory>>

\* Runtime::sleep
Sleep ==
    /\ pc = "sleep"
    /\ pc' = "read"
    /\ trace' = Traced(trace, SleepEvent)
    /\ UNCHANGED <<batch_size, jlen, cursor_file, streams, jpos, aws_cursor,
                   batch, seek, batchAcked, crashes, gapOnly>>
    /\ UNCHANGED <<FileHistory, RunHistory, SinkHistory>>
    /\ UNCHANGED <<ExitHistory, StartHistory>>


\* upload_logs after put_log_events returned Err: unwrap panics
UploadErr ==
    LET next == upload_unwrap(FALSE)
    IN  /\ IF next = "down"
           THEN Dropped
           ELSE /\ pc' = next
                /\ UNCHANGED <<jpos, aws_cursor, batch, seek, batchAcked>>
        /\ uploadsRun' = uploadsRun \o log_events(batch.logs)
        /\ trace' = Traced(trace, UploadEvent(batch))
        /\ gapOnly' = FALSE
        /\ exit' = [cause |-> "upload", token |-> aws_cursor]
        /\ inflight' = Records(batch)
        /\ UNCHANGED <<batch_size, jlen, cursor_file, readsRun, lastRead,
                       resumeFloor, freshStart, acked, ackedRecords>>
        /\ UNCHANGED <<FileHistory, StartHistory>>

\* the service takes the events of the request and moves the stream's token
Accepted ==
    LET next == NextSequenceToken(log_stream_name, streams[log_stream_name].token)
    IN  /\ streams' = [streams EXCEPT ![log_stream_name].token = next]
        /\ delivered' = delivered \cup
                            {log_events(batch.logs)[i] : i \in 1..Len(batch.logs)}
        /\ lastReturned' = next

\* Runtime::upload_logs, the service accepts and answers
UploadOk ==
    /\ pc = "upload"
    /\ Accepts(aws_cursor)
    /\ Accepted
    /\ aws_cursor' = lastReturned'
    /\ pc' = upload_unwrap(TRUE)
    /\ acked' = acked \cup {batch.cursor}
    /\ ackedRecords' =
          ackedRecords \cup {batch.logs[i] : i \in 1..Len(batch.logs)}
    /\ batchAcked' = TRUE
    /\ uploadsRun' = uploadsRun \o log_events(batch.logs)
    /\ trace' = Traced(trace, UploadEvent(batch))
    /\ UNCHANGED <<batch_size, jlen, cursor_file, jpos, batch, seek, crashes,
                   gapOnly, readsRun, lastRead, resumeFloor, freshStart>>
    /\ UNCHANGED <<FileHistory, ExitHistory, StartHistory>>

\* Runtime::upload_logs, the service refuses the request (no such stream,
\* or not the stream's sequence token)
UploadRejected ==
    /\ pc = "upload"
    /\ ~Accepts(aws_cursor)
    /\ UploadErr
    /\ UNCHANGED <<streams, crashes, delivered, lastReturned>>

\* Runtime::upload_logs, the request does not reach the service
UploadFail ==
    /\ pc = "upload"
    /\ crashes < MaxCrashes
    /\ crashes' = crashes + 1
    /\ UploadErr
    /\ UNCHANGED <<streams, delivered, lastReturned>>

\* Runtime::upload_logs, the service accepts and its answer is lost
UploadLost ==
    /\ pc = "upload"
    /\ crashes < MaxCrashes
    /\ crashes' = crashes + 1
    /\ Accepts(aws_cursor)
    /\ Accepted
    /\ UploadErr

\* Runtime::persist_cursor, line 112: File::create creates or truncates
PersistCreate ==
    /\ pc = "persist"
    /\ cursor_file' = [exists |-> TRUE, bytes |-> <<>>]
    /\ prevBytes' = cursor_file.bytes
    /\ newBytes' = batch.cursor
    /\ pc' = "write"
    /\ UNCHANGED <<batch_size, jlen, streams, jpos, aws_cursor, batch, seek,
                   batchAcked, crashes, gapOnly, lastPersisted>>
    /\ UNCHANGED <<RunHistory, SinkHistory>>
    /\ UNCHANGED <<ExitHistory, StartHistory, trace>>

\* Runtime::persist_cursor, line 112: File::create fails, unwrap panics
CreateFail ==
    /\ pc = "persist"
    /\ crashes < MaxCrashes
    /\ crashes' = crashes + 1
    /\ prevBytes' = cursor_file.bytes
    /\ newBytes' = batch.cursor
    /\ Dropped
    /\ gapOnly' = FALSE
    /\ exit' = [cause |-> "create", token |-> aws_cursor]
    /\ inflight' = Records(batch)
    /\ UNCHANGED <<batch_size, jlen, cursor_file, streams, lastPersisted>>
    /\ UNCHANGED <<RunHistory, SinkHistory>>
    /\ UNCHANGED <<StartHistory, trace>>

\* Runtime::persist_cursor, line 113: write_all writes the whole token
PersistWrite ==
    /\ pc = "write"
    /\ cursor_file' = [exists |-> TRUE, bytes |-> batch.cursor]
    /\ lastPersisted' = IF WellFormedCursor(batch.cursor)
                        THEN batch.cursor[2] ELSE lastPersisted
    /\ pc' = "read"
    /\ trace' = Traced(trace, PersistEvent(batch))
    /\ UNCHANGED <<batch_size, jlen, streams, jpos, aws_cursor, batch, seek,
                   batchAcked, crashes, gapOnly, prevBytes, newBytes>>
    /\ UNCHANGED <<RunHistory, SinkHistory>>
    /\ UNCHANGED <<ExitHistory, StartHistory>>

\* Runtime::persist_cursor, line 113: write_all fails part-way, unwrap panics
WriteFail ==
    /\ pc = "write"
    /\ crashes < MaxCrashes
    /\ crashes' = crashes + 1
    /\ \E b \in StrictPrefixes(batch.cursor) :
          cursor_file' = [exists |-> TRUE, bytes |-> b]
    /\ Dropped
    /\ gapOnly' = FALSE
    /\ exit' = [cause |-> "write", token |-> aws_cursor]
    /\ inflight' = Records(batch)
    /\ UNCHANGED <<batch_size, jlen, streams>>
    /\ UNCHANGED <<FileHistory, RunHistory, SinkHistory>>
    /\ UNCHANGED <<StartHistory, trace>>

\* the process is killed
Crash ==
    /\ pc # "down"
    /\ crashes < MaxCrashes
    /\ crashes' = crashes + 1
    /\ Dropped
    /\ gapOnly' = (gapOnly /\ pc = "persist")
    /\ exit' = [cause |-> "kill", token |-> aws_cursor]
    /\ inflight' = InFlight
    /\ UNCHANGED <<batch_size, jlen, cursor_file, streams>>
    /\ UNCHANGED <<FileHistory, RunHistory, SinkHistory>>
    /\ UNCHANGED <<StartHistory, trace>>

\* Runtime::read_batch, lines 79 and 89: next_record or cursor fails,
\* unwrap panics
ReadFail ==
    /\ pc = "read"
    /\ crashes < MaxCrashes
    /\ crashes' = crashes + 1
    /\ Dropped
    /\ gapOnly' = FALSE
    /\ exit' = [cause |-> "read", token |-> aws_cursor]
    /\ inflight' = InFlight
    /\ UNCHANGED <<batch_size, jlen, cursor_file, streams>>
    /\ UNCHANGED <<FileHistory, RunHistory, SinkHistory>>
    /\ UNCHANGED <<StartHistory, trace>>

\* the supervisor starts the process again: main, read_config, init_runtime
Restart ==
    /\ pc = "down"
    /\ pc' = "init_journal"
    /\ readsRun' = <<>>
    /\ uploadsRun' = <<>>
    /\ lastRead' = [backlog |-> 0, consumed |-> 0, some |-> FALSE, len |-> 0]
    /\ resumeFloor' = lastPersisted
    /\ exit' = NoExit
    /\ deliveredAtStart' = delivered
    /\ resolution' = NoResolution
    /\ trace' = <<>>
    /\ UNCHANGED <<batch_size, jlen, cursor_file, streams, jpos, aws_cursor,
                   batch, seek, batchAcked, crashes, gapOnly, freshStart>>
    /\ UNCHANGED <<FileHistory, SinkHistory>>
    /\ UNCHANGED <<inflight, seekTarget>>

Next ==
    \/ AppendRecord
    \/ InitJournal
    \/ CreateOrFindLogStream
    \/ ReadBatch
    \/ Sleep
    \/ ReadFail
    \/ UploadOk
    \/ UploadRejected
    \/ UploadFail
    \/ UploadLost
    \/ PersistCreate
    \/ CreateFail
    \/ PersistWrite
    \/ WriteFail
    \/ Crash
    \/ Restart

Spec == Init /\ [][Next]_vars

\* A run in which nothing is injected: no kill, no failing call, no restart,
\* and a journal that does not grow.  An upload the service refuses still
\* panics.
ScenarioNext ==
    \/ InitJournal
    \/ CreateOrFindLogStream
    \/ ReadBatch
    \/ Sleep
    \/ UploadOk
    \/ UploadRejected
    \/ PersistCreate
    \/ PersistWrite

\* the single thread takes its next step
ScenarioFairness ==
    /\ WF_vars(InitJournal)
    /\ WF_vars(CreateOrFindLogStream)
    /\ WF_vars(ReadBatch)
    /\ WF_vars(Sleep)
    /\ WF_vars(UploadOk)
    /\ WF_vars(UploadRejected)
    /\ WF_vars(PersistCreate)
    /\ WF_vars(PersistWrite)

ScenarioSpec == ScenarioInit /\ [][ScenarioNext]_vars /\ ScenarioFairness


\* ------------------------------------------------------------------ claims
\* the process is past init_runtime
Running == pc \notin {"down", "init_journal", "find_stream"}

\* the position a cursor file names, when it holds a whole cursor
FilePos == cursor_file.bytes[2]

\* C1: a batch's cursor is written to the cursor file only after upload_logs
\* returned for that batch in the same run: while persist_cursor runs the
\* batch's upload has returned, and whatever part of a cursor the file holds
\* is part of the cursor of a batch whose upload returned.
C1_CursorOnlyAfterUpload ==
    /\ pc \in {"persist", "write"} =>
          /\ batch.some
          /\ batchAcked
          /\ batch.cursor \in acked
    /\ cursor_file.bytes # <<>> =>
          \E c \in acked : IsPrefix(cursor_file.bytes, c)

C1_Witness ==
    /\ pc = "read"
    /\ batch.some
    /\ batchAcked
    /\ cursor_file.bytes = batch.cursor

\* C2: every record at or before the position the cursor file names has been
\* part of an upload the service accepted and answered, whatever kills,
\* failures and restarts came before.
C2_NoLoss ==
    WellFormedCursor(cursor_file.bytes) =>
        \A r \in 1..FilePos : r \in delivered /\ r \in ackedRecords

C2_Witness ==
    /\ WellFormedCursor(cursor_file.bytes)
    /\ FilePos >= 2
    /\ crashes >= 1
    /\ pc = "read"

\* C3: when every kill so far hit after upload_logs returned and before
\* persist_cursor began, a run seeks to the last persisted cursor and every
\* record it uploads lies after that cursor.
C3_ResumeCorrect ==
    gapOnly =>
        /\ (Running /\ resumeFloor > 0) =>
              seek = SeekCursor(JournalCursor(resumeFloor))
        /\ \A i \in 1..Len(uploadsRun) : uploadsRun[i] > resumeFloor

C3_Witness ==
    /\ gapOnly
    /\ crashes >= 1
    /\ resumeFloor >= 1
    /\ pc = "persist"
    /\ uploadsRun # <<>>
    /\ uploadsRun[1] = resumeFloor + 1

\* The process takes its next step, the supervisor restarts it, and an
\* upload the service would accept is eventually answered; kills and
\* injected failures are finite (crashes < MaxCrashes).
Fairness ==
    /\ WF_vars(InitJournal)
    /\ WF_vars(CreateOrFindLogStream)
    /\ WF_vars(ReadBatch)
    /\ WF_vars(Sleep)
    /\ WF_vars(UploadOk)
    /\ WF_vars(UploadRejected)
    /\ WF_vars(PersistCreate)
    /\ WF_vars(PersistWrite)
    /\ WF_vars(Restart)

LiveSpec == Init /\ [][Next]_vars /\ Fairness

\* C4: every record in the journal is eventually part of an upload the
\* service accepted (stated for batch_size >= 1: with batch_size = 0
\* read_batch reads nothing at all).
C4_AtLeastOnce ==
    \A r \in 1..MaxJournal :
        (batch_size >= 1 /\ jlen >= r) ~> (r \in delivered)

\* C5: the cursor file holds the whole token it held before the last
\* persist_cursor began, or the whole token that call was given.
C5_AtomicReplace == cursor_file.bytes \in {prevBytes, newBytes}

\* C6: an upload request carries the token the last accepted upload to the
\* stream returned, and no token when none was accepted before.
C6_TokenChaining == pc = "upload" => aws_cursor = lastReturned

\* C7: when create_or_find_log_stream returns, the configured stream exists
\* and the token returned is the one that stream had if it existed, and None
\* if it was created.
C7_StreamResolution ==
    [][(pc = "find_stream" /\ pc' = "read") =>
          /\ streams'[log_stream_name].exists
          /\ aws_cursor' = IF streams[log_stream_name].exists
                           THEN streams[log_stream_name].token
                           ELSE NoToken]_vars

\* C8: a run that finds the cursor file absent or empty seeks to Head, and
\* the first record it reads is the first record of the journal.
C8_FreshStart ==
    (freshStart /\ Running) =>
        /\ seek = SeekHead
        /\ readsRun # <<>> => readsRun[1] = 1

C8_Witness ==
    /\ freshStart
    /\ cursor_file.exists
    /\ crashes >= 1
    /\ pc = "upload"
    /\ readsRun # <<>>

\* C9: read_batch consumes min(batch_size, backlog) records, returns them
\* all, returns None exactly when that is zero, and a request carries between
\* one and batch_size records.
C9_BatchBound ==
    /\ lastRead.consumed = Min(batch_size, lastRead.backlog)
    /\ lastRead.len = lastRead.consumed
    /\ lastRead.some = (lastRead.consumed > 0)
    /\ pc = "upload" => (Len(batch.logs) >= 1 /\ Len(batch.logs) <= batch_size)

C9_Witness ==
    /\ pc = "upload"
    /\ lastRead.backlog > batch_size
    /\ lastRead.consumed = batch_size
    /\ batch_size >= 2

\* C10: a read_batch that returns None is followed by sleep, and neither
\* that step nor the sleep changes the sequence token, the cursor file or
\* the log group; from sleep the process goes to read_batch only.
C10_IdleStep ==
    [][/\ (pc = "read" /\ Running' /\ jlen' = jlen /\ ~batch'.some) =>
             /\ pc' = "sleep"
             /\ UNCHANGED <<aws_cursor, cursor_file, streams, delivered>>
       /\ (pc = "sleep" /\ Running') =>
             /\ pc' \in {"sleep", "read"}
             /\ UNCHANGED <<aws_cursor, cursor_file, streams, delivered>>]_vars

C10_Witness ==
    /\ pc = "sleep"
    /\ ~batch.some
    /\ lastPersisted >= 1
    /\ jpos = jlen


\* the causes of exit that are a failed call of the loop
FailCauses == {"read", "upload", "create", "write"}

\* C11: a read_batch, upload or cursor write that fails ends the process in
\* that step, and the run does nothing after it; a failed upload leaves the
\* cursor file as it was and Runtime.aws_cursor as it was before the call.
C11_FailStop ==
    /\ [](exit.cause \in FailCauses => pc = "down")
    /\ [][(exit' # exit /\ exit'.cause \in FailCauses) =>
             /\ pc' = "down"
             /\ UNCHANGED <<readsRun, lastPersisted>>
             /\ exit'.cause = "upload" =>
                   /\ cursor_file' = cursor_file
                   /\ exit'.token = aws_cursor]_vars

C11_Witness ==
    /\ exit.cause = "upload"
    /\ pc = "down"
    /\ lastPersisted >= 1
    /\ cursor_file.bytes = JournalCursor(lastPersisted)
    /\ exit.token # NoToken


\* the batch of records a..b with the cursor of b
BatchOf(logs) ==
    [some |-> TRUE, logs |-> logs, cursor |-> JournalCursor(logs[Len(logs)])]

\* the call sequence of the reference scenario, records a..e being 1..5
ReferenceTrace ==
    <<ReadEvent(BatchOf(<<1, 2>>)), UploadEvent(BatchOf(<<1, 2>>)),
      PersistEvent(BatchOf(<<1, 2>>)),
      ReadEvent(BatchOf(<<3, 4>>)), UploadEvent(BatchOf(<<3, 4>>)),
      PersistEvent(BatchOf(<<3, 4>>)),
      ReadEvent(BatchOf(<<5>>)), UploadEvent(BatchOf(<<5>>)),
      PersistEvent(BatchOf(<<5>>)),
      ReadEvent(NoBatch), SleepEvent>>

\* C12: with batch_size = 2, a journal of five records, no cursor and no
\* failure, the calls made so far are always the first calls of: read {a,b},
\* upload, persist cursor@b, read {c,d}, upload, persist cursor@d, read {e},
\* upload, persist cursor@e, read None, sleep.
C12_ReferenceScenario ==
    (batch_size = 2 /\ jlen = 5 /\ exit.cause = "none") =>
        /\ IsPrefix(trace, ReferenceTrace)
        /\ pc = "upload" => trace[Len(trace)].op = "read"
        /\ pc \in {"persist", "write"} => trace[Len(trace)].op = "upload"
        /\ pc = "sleep" => trace[Len(trace)] \in {ReadEvent(NoBatch), SleepEvent}

C12_Witness ==
    /\ batch_size = 2
    /\ jlen = 5
    /\ exit.cause = "none"
    /\ trace = ReferenceTrace
    /\ cursor_file.bytes = JournalCursor(5)
    /\ delivered = 1..5


\* C13: the records a run uploads that the service had already accepted
\* before the run started all belong to the one batch that was in hand
\* (uploaded or being uploaded, its cursor not stored) when a process before
\* it ended, so they are at most batch_size.
C13_BoundedRedelivery ==
    LET sent == Records([logs |-> uploadsRun]) \cup
                (IF pc = "upload" THEN Records(batch) ELSE {})
        again == sent \cap deliveredAtStart
    IN  pc # "down" =>
            /\ again \subseteq inflight
            /\ Cardinality(again) <= batch_size


\* the journal position the run started from: the entry its seek names
RunStart == IF seek.kind = "Cursor" THEN seek.cursor[2] ELSE 0

\* C14: in a run the records read_batch returns are the journal's records
\* after the start position, one after the other with none left out or
\* repeated; the reader stands on the last one; a batch is the last records
\* read and its cursor names the last of them; a read_batch that returns
\* None consumes nothing.
C14_ContiguousReads ==
    Running =>
        /\ \A i \in 1..Len(readsRun) : readsRun[i] = RunStart + i
        /\ jpos = RunStart + Len(readsRun)
        /\ batch.some =>
              /\ Len(batch.logs) <= Len(readsRun)
              /\ batch.logs = SubSeq(readsRun,
                                     Len(readsRun) - Len(batch.logs) + 1,
                                     Len(readsRun))
              /\ batch.cursor = JournalCursor(batch.logs[Len(batch.logs)])
        /\ ~lastRead.some => lastRead.consumed = 0

C14_Witness ==
    /\ pc = "upload"
    /\ RunStart >= 1
    /\ Len(readsRun) > Len(batch.logs)
    /\ jpos = jlen

\* C15: persist_cursor leaves the batch's token as the whole content of the
\* cursor file, nothing but persist_cursor changes the file, and a start
\* seeks to exactly the file's content when that is not empty, whether or
\* not it is a cursor of the journal, and to Head when the file is missing
\* or empty.
C15_CursorRoundTrip ==
    /\ []((pc = "find_stream" \/ (pc = "down" /\ exit.cause = "seek")) =>
             seekTarget = IF cursor_file.exists /\ cursor_file.bytes # <<>>
                          THEN [kind |-> "Cursor", cursor |-> cursor_file.bytes]
                          ELSE [kind |-> "Head", cursor |-> <<>>])
    /\ [][/\ (pc = "write" /\ pc' = "read") =>
                cursor_file' = [exists |-> TRUE, bytes |-> batch.cursor]
          /\ pc \notin {"persist", "write"} => cursor_file' = cursor_file]_vars

C15_Witness ==
    /\ pc = "find_stream"
    /\ crashes >= 1
    /\ lastPersisted >= 1
    /\ cursor_file.bytes = newBytes
    /\ seekTarget = SeekCursor(JournalCursor(lastPersisted))

\* C16: in a run the records of the upload requests, in the order the
\* requests are made, are the journal's records after the start position,
\* one after the other: they are the first of the records read, and the
\* batch about to be uploaded starts right after the last record uploaded
\* and is in journal order.
C16_OrderPreserved ==
    Running =>
        /\ \A i \in 1..Len(uploadsRun) : uploadsRun[i] = RunStart + i
        /\ IsPrefix(uploadsRun, readsRun)
        /\ pc = "upload" =>
              \A i \in 1..Len(batch.logs) :
                  log_events(batch.logs)[i] = RunStart + Len(uploadsRun) + i

C16_Witness ==
    /\ pc = "upload"
    /\ RunStart >= 1
    /\ Len(uploadsRun) >= 1
    /\ Len(batch.logs) >= 1
    /\ readsRun = uploadsRun \o batch.logs

\* the journal position a cursor file records: none, 0, while it holds no
\* whole cursor
StoredPos(file) ==
    IF file.exists /\ WellFormedCursor(file.bytes) THEN file.bytes[2] ELSE 0

\* C17: the position the cursor file records never moves backward: outside
\* a running persist_cursor the file records a position at or after the one
\* the last completed write stored, so after a first write it is never
\* empty again, and a write stores a position at or after the one stored
\* before it.
C17_CursorMonotonic ==
    /\ pc # "write" => StoredPos(cursor_file) >= lastPersisted
    /\ pc = "write" => batch.cursor[2] >= lastPersisted

\* C18: in every run create_or_find_log_stream has returned before an upload
\* request is made, and the first upload request of the run carries the
\* token that it returned.
C18_StartupOrdering ==
    /\ (pc \in {"upload", "persist", "write"} \/ uploadsRun # <<>>) =>
          resolution.done
    /\ (pc = "upload" /\ uploadsRun = <<>>) => aws_cursor = resolution.token

C18_Witness ==
    /\ pc = "upload"
    /\ uploadsRun = <<>>
    /\ resolution.done
    /\ resolution.token # NoToken
    /\ aws_cursor = resolution.token

\* C19: while no operation has failed and the process has not been killed,
\* a step of the program is enabled in every state it reaches, and every
\* iteration of the loop, the one that sleeps as well as the one that
\* uploads and persists, comes back to read_batch.
C19_NoTerminalState ==
    /\ [](exit.cause = "none" => ENABLED <<ScenarioNext>>_vars)
    /\ [](pc \in {"sleep", "upload", "persist", "write"} =>
             <>(pc = "read" \/ exit.cause # "none"))

C19_Witness ==
    /\ pc = "read"
    /\ exit.cause = "none"
    /\ trace # <<>>
    /\ trace[Len(trace)] = SleepEvent
    /\ \E i \in 1..Len(trace) : trace[i].op = "persist"

====
